---- MODULE Spec2Model ----
(***************************************************************************)
(* Model of the VehicleMap component (src/components/VehicleMap.tsx): the  *)
(* route load, the map effect, the movement effect with its interval       *)
(* timer, and the three command handlers handlePlay / handlePause /        *)
(* handleReset.                                                            *)
(*                                                                         *)
(* A React commit and the effects it schedules are folded into the action  *)
(* that caused the state change: the effects of a commit run long before   *)
(* the 1000 ms interval can fire again.  The handlers are the command      *)
(* interface of the playback engine and are callable in every state; the   *)
(* buttons that bind them (lines 337-350, rendered only while isTokenValid)*)
(* belong to the control surface and are not modelled.  The fetched        *)
(* payloads are arrays of points, with or without a timestamp field, and   *)
(* one non-array object.                                                   *)
(*                                                                         *)
(* Numbers that JavaScript may turn into NaN or Infinity are tagged        *)
(* records (Fin, NaN, Infinity).  Speed is kept in hundredths of km/h,     *)
(* distances in centimetres, time stamps in milliseconds, coordinates in   *)
(* thousandths of a degree.                                                *)
(***************************************************************************)
EXTENDS Integers, Sequences, FiniteSets, TLC

VARIABLES
    mounted,          \* the component is mounted
    fetchState,       \* the fetch of line 34: "pending", "resolved", "rejected"
    response,         \* the JSON value the fetch delivered (history)
    routeData,        \* useState line 24: a JSON value
    currentIndex,     \* useState line 25
    isPlaying,        \* useState line 26
    currentPosition,  \* useState line 27: <<>> (null) or <<point>>
    speed,            \* useState line 28, hundredths of km/h
    elapsedTime,      \* useState line 29, seconds
    intervalRef,      \* useRef line 30: 0 (null) or the id of the last interval
    activeIntervals,  \* ids of the intervals the timer facility still fires
    mapboxToken,      \* useState line 22
    isTokenValid,     \* useState line 23
    map,              \* map.current: "null", "loading", "loaded", "removed"
    activeRoute,      \* coordinates of the 'active-route' source
    vehicleMarker,    \* vehicleMarker.current: <<>> (null) or <<lngLat>>
    lastToast,        \* the most recent toast
    last,             \* the last command or tick and the state it started from
    ticksSincePlay    \* ticks since a play from (Stopped, cursor 0); -1 if none

vars == << mounted, fetchState, response, routeData, currentIndex, isPlaying,
           currentPosition, speed, elapsedTime, intervalRef, activeIntervals,
           mapboxToken, isTokenValid, map, activeRoute, vehicleMarker,
           lastToast, last, ticksSincePlay >>

-----------------------------------------------------------------------------
(* Bounds and inputs *)

MaxLen == 3

\* Earth radius of line 232, in km
R == 6371

Tokens == {"pk.a"}

\* A route point: coordinates in thousandths of a degree, the time stamp as
\* the <<seconds, milliseconds>> fields of an ISO-8601 string, or <<>> when
\* the element has no timestamp field.
Pt(lat, lon, ts) == [latitude |-> lat, longitude |-> lon, timestamp |-> ts]

PointPool ==
    { Pt(0, 0, <<0, 0>>),
      Pt(0, 1, <<1, 0>>),
      Pt(0, 2, <<2, 500>>),
      Pt(0, 1, <<>>) }

SeqsUpTo(S, n) == UNION { [1..k -> S] : k \in 0..n }

\* JSON values the fetch may deliver: arrays of elements, and an object.
JsonArray(items) == [kind |-> "array", items |-> items]
JsonObject == [kind |-> "object", items |-> <<>>]

Payloads == { JsonArray(s) : s \in SeqsUpTo(PointPool, MaxLen) } \cup {JsonObject}

-----------------------------------------------------------------------------
(* JavaScript numbers *)

Fin(n) == [tag |-> "fin", v |-> n]
NaN == [tag |-> "nan", v |-> 0]
Infinity == [tag |-> "inf", v |-> 0]

\* Math.round(num / den) for den > 0: halves round towards +Infinity
MathRound(num, den) == (2 * num + den) \div (2 * den)

\* new Date(timestamp).getTime(), lines 197, 198, 211, 212
getTime(ts) ==
    IF Len(ts) = 2 THEN Fin(ts[1] * 1000 + ts[2]) ELSE NaN

\* a - b
Minus(a, b) ==
    IF a.tag = "fin" /\ b.tag = "fin" THEN Fin(a.v - b.v) ELSE NaN

-----------------------------------------------------------------------------
(* routeData.length in the conditions of the code.  An object has no      *)
(* length: every comparison with undefined or NaN is false.               *)

IsArray(rd) == rd.kind = "array"

\* Faulty variant of LengthPositive: routeData.length > 1
LengthPositive_AtLeastTwo(rd) == IsArray(rd) /\ Len(rd.items) > 1

\* routeData.length > 0 (lines 38, 163, 261); !routeData.length is its negation
LengthPositive(rd) == IsArray(rd) /\ Len(rd.items) > 0

\* Faulty variants of AtOrPastLast: > for >=, and length - 2 for length - 1
AtOrPastLast_Strict(i, rd) == IsArray(rd) /\ i > Len(rd.items) - 1
AtOrPastLast_OffByOne(i, rd) == IsArray(rd) /\ i >= Len(rd.items) - 2

\* currentIndex >= routeData.length - 1 (line 243)
AtOrPastLast(i, rd) == IsArray(rd) /\ i >= Len(rd.items) - 1

\* Faulty variant of PastEnd: the route completes one point early
PastEnd_Early(nextIndex, rd) == nextIndex >= Len(rd.items) - 1

\* nextIndex >= routeData.length (line 167)
PastEnd(nextIndex, rd) == nextIndex >= Len(rd.items)

\* [point.longitude, point.latitude] (lines 71, 137, 178, 183, 265)
LngLat(p) == <<p.longitude, p.latitude>>

-----------------------------------------------------------------------------
(* calculateDistance, lines 231-240.  The haversine distance of two points *)
(* a few thousandths of a degree apart near the equator is R times the     *)
(* Euclidean norm of (dLat, dLon) in radians; it is computed here in       *)
(* fixed point and returned in centimetres.                                *)

\* floor(sqrt(n))
Isqrt(n) == CHOOSE r \in 0..n : r * r <= n /\ (r + 1) * (r + 1) > n

\* centimetres per thousandth of a degree: R km * (PI / 180) * 0.001
CmPerUnit == (R * 17453) \div 10000

calculateDistance(lat1, lon1, lat2, lon2) ==
    LET dLat == lat2 - lat1
        dLon == lon2 - lon1
        a == dLat * dLat + dLon * dLon
    IN  (CmPerUnit * Isqrt(a * 10000)) \div 100

\* Math.round(distance / timeDiff * 3.6 * 100) / 100, lines 199-207, in
\* hundredths of km/h; timeDiff is (currentTime - prevTime) in milliseconds
calculatedSpeed(distance, timeDiff) ==
    IF timeDiff.tag # "fin" THEN NaN
    ELSE IF timeDiff.v = 0 THEN (IF distance = 0 THEN NaN ELSE Infinity)
    ELSE IF timeDiff.v > 0 THEN Fin(MathRound(distance * 3600, timeDiff.v))
    ELSE Fin(MathRound(0 - distance * 3600, 0 - timeDiff.v))

\* Faulty variant of SpeedAt: the segment is taken from the start of the route
SpeedAt_FromStart(rd, nextIndex) ==
    LET prevPoint == rd.items[1]
        currentPoint == rd.items[nextIndex + 1]
    IN  calculatedSpeed(
            calculateDistance(prevPoint.latitude, prevPoint.longitude,
                              currentPoint.latitude, currentPoint.longitude),
            Minus(getTime(currentPoint.timestamp), getTime(prevPoint.timestamp)))

\* the speed set by a tick that arrives at nextIndex, lines 195-208
SpeedAt(rd, nextIndex) ==
    LET prevPoint == rd.items[nextIndex]
        currentPoint == rd.items[nextIndex + 1]
    IN  calculatedSpeed(
            calculateDistance(prevPoint.latitude, prevPoint.longitude,
                              currentPoint.latitude, currentPoint.longitude),
            Minus(getTime(currentPoint.timestamp), getTime(prevPoint.timestamp)))

\* Faulty variant of ElapsedAt: measured from the previous point
ElapsedAt_FromPrev(rd, nextIndex) ==
    LET d == Minus(getTime(rd.items[nextIndex + 1].timestamp),
                   getTime(rd.items[nextIndex].timestamp))
    IN  IF d.tag = "fin" THEN Fin(MathRound(d.v, 1000)) ELSE NaN

\* Math.round((currentTime - startTime) / 1000), lines 211-213
ElapsedAt(rd, nextIndex) ==
    LET d == Minus(getTime(rd.items[nextIndex + 1].timestamp),
                   getTime(rd.items[1].timestamp))
    IN  IF d.tag = "fin" THEN Fin(MathRound(d.v, 1000)) ELSE NaN

\* routeData.slice(0, nextIndex + 1).map(...), line 183
ActiveCoordinates(rd, nextIndex) ==
    [k \in 1..(nextIndex + 1) |-> LngLat(rd.items[k])]

-----------------------------------------------------------------------------
(* The timer facility and the movement effect, lines 162-229 *)

\* setInterval returns an id that no live interval and no remembered id has
FreshId(ref, active) ==
    CHOOSE i \in 1..(Cardinality(active) + 2) :
        /\ i \notin active /\ i # ref
        /\ \A j \in 1..(i - 1) : j \in active \/ j = ref

\* Faulty variant of MovementCleanup: the effect returns no cleanup function
MovementCleanup_Missing(ref, active) == active

\* The cleanup the movement effect returns (lines 224-228): clearInterval of
\* the remembered id; clearing an id that is not live, or null, does nothing.
MovementCleanup(ref, active) == active \ {ref}

\* Faulty variant of MovementEffect: no clearInterval, neither in the cleanup
\* nor in the else branch
MovementEffect_NoClear(playing, rd, ref, active) ==
    LET id == FreshId(ref, active)
    IN  IF playing /\ LengthPositive(rd)
        THEN [ref |-> id, active |-> active \cup {id}]
        ELSE [ref |-> ref, active |-> active]

\* One run of the movement effect after a commit that changed isPlaying or
\* routeData: the cleanup of the previous run (lines 224-228), then the body
\* (lines 163-222).
MovementEffect(playing, rd, ref, active) ==
    LET cleaned == MovementCleanup(ref, active)
        id == FreshId(ref, cleaned)
    IN  IF playing /\ LengthPositive(rd)
        THEN [ref |-> id, active |-> cleaned \cup {id}]
        ELSE [ref |-> ref, active |-> cleaned \ {ref}]

\* The effect runs only when one of its dependencies [isPlaying, routeData]
\* changed (line 229).
RunMovementEffect(changed, playing, rd) ==
    IF changed
    THEN LET e == MovementEffect(playing, rd, intervalRef, activeIntervals)
         IN  intervalRef' = e.ref /\ activeIntervals' = e.active
    ELSE UNCHANGED <<intervalRef, activeIntervals>>

\* map.current && map.current.getSource('active-route'), lines 182, 268
HasActiveRouteSource == map = "loaded"

\* One run of the map effect after a commit that changed mapboxToken or
\* routeData (line 159): the cleanup of the previous run removes the map it
\* created (lines 156-158), then the body creates a new map if the guard of
\* line 51 lets it.  mapContainer.current is taken to be attached.
MapEffect(token, rd, m) ==
    LET cleaned == IF m \in {"loading", "loaded"} THEN "removed" ELSE m
    IN  IF token # "" /\ LengthPositive(rd) THEN "loading" ELSE cleaned

RunMapEffect(token, rd) ==
    /\ map' = MapEffect(token, rd, map)
    /\ activeRoute' = IF map' = map THEN activeRoute ELSE <<>>

\* the state a command or a tick started from
Before(op) ==
    [op |-> op, isPlaying |-> isPlaying, currentIndex |-> currentIndex,
     speed |-> speed, elapsedTime |-> elapsedTime]

\* any other step: load, token input, map events, teardown
Other ==
    [op |-> "other", isPlaying |-> FALSE, currentIndex |-> 0,
     speed |-> Fin(0), elapsedTime |-> Fin(0)]

-----------------------------------------------------------------------------
(* Initial state: the useState / useRef initial values, lines 18-30 *)

Init ==
    /\ mounted = TRUE
    /\ fetchState = "pending"
    /\ response = JsonArray(<<>>)
    /\ routeData = JsonArray(<<>>)
    /\ currentIndex = 0
    /\ isPlaying = FALSE
    /\ currentPosition = <<>>
    /\ speed = Fin(0)
    /\ elapsedTime = Fin(0)
    /\ intervalRef = 0
    /\ activeIntervals = {}
    /\ mapboxToken = ""
    /\ isTokenValid = FALSE
    /\ map = "null"
    /\ activeRoute = <<>>
    /\ vehicleMarker = <<>>
    /\ lastToast = ""
    /\ last = Other
    /\ ticksSincePlay = -1

-----------------------------------------------------------------------------
(* Route load, lines 33-47 *)

\* Faulty variant of FetchPending: the effect has no dependency array and the
\* fetch is issued again after later renders.
FetchOnEveryRender == TRUE

\* The effect has the dependency array [] (line 47): the fetch is issued once,
\* on mount, and resolves or rejects once.
FetchPending == fetchState = "pending"

\* the fetch and response.json() succeed with the JSON value data
LoadResolve ==
    \E data \in Payloads :
        /\ mounted /\ FetchPending
        /\ fetchState' = "resolved"
        /\ response' = data
        /\ routeData' = data
        /\ currentPosition' = IF LengthPositive(data) THEN <<data.items[1]>>
                                                      ELSE currentPosition
        /\ lastToast' = "Route data loaded successfully!"
        /\ RunMapEffect(mapboxToken, data)
        /\ RunMovementEffect(TRUE, isPlaying, data)
        /\ last' = Other
        /\ UNCHANGED <<mounted, currentIndex, isPlaying, speed, elapsedTime,
                       mapboxToken, isTokenValid, vehicleMarker,
                       ticksSincePlay>>

\* the fetch or response.json() fails: the catch of lines 43-46
LoadReject ==
    /\ mounted /\ fetchState = "pending"
    /\ fetchState' = "rejected"
    /\ lastToast' = "Failed to load route data"
    /\ last' = Other
    /\ UNCHANGED <<mounted, response, routeData, currentIndex, isPlaying,
                   currentPosition, speed, elapsedTime, intervalRef,
                   activeIntervals, mapboxToken, isTokenValid, map, activeRoute,
                   vehicleMarker, ticksSincePlay>>

-----------------------------------------------------------------------------
(* Map view, lines 50-159 *)

\* onChange of the token input (line 309) and the map effect it triggers
setMapboxToken ==
    \E t \in Tokens :
        /\ mounted /\ t # mapboxToken
        /\ mapboxToken' = t
        /\ RunMapEffect(t, routeData)
        /\ last' = Other
        /\ UNCHANGED <<mounted, fetchState, response, routeData, currentIndex,
                       isPlaying, currentPosition, speed, elapsedTime,
                       intervalRef, activeIntervals, isTokenValid,
                       vehicleMarker, lastToast, ticksSincePlay>>

\* the 'load' event of the map, lines 67-142
MapOnLoad ==
    /\ mounted /\ map = "loading"
    /\ map' = "loaded"
    /\ activeRoute' = <<>>
    /\ vehicleMarker' = <<LngLat(routeData.items[1])>>
    /\ isTokenValid' = TRUE
    /\ lastToast' = "Map loaded successfully!"
    /\ last' = Other
    /\ UNCHANGED <<mounted, fetchState, response, routeData, currentIndex,
                   isPlaying, currentPosition, speed, elapsedTime, intervalRef,
                   activeIntervals, mapboxToken, ticksSincePlay>>

\* the 'error' event of the map, lines 144-148
MapOnError ==
    /\ mounted /\ map \in {"loading", "loaded"}
    /\ isTokenValid' = FALSE
    /\ lastToast' = "Invalid Mapbox token or map loading error"
    /\ last' = Other
    /\ UNCHANGED <<mounted, fetchState, response, routeData, currentIndex,
                   isPlaying, currentPosition, speed, elapsedTime, intervalRef,
                   activeIntervals, mapboxToken, map, activeRoute,
                   vehicleMarker, ticksSincePlay>>

-----------------------------------------------------------------------------
(* Commands, lines 242-281 *)

\* Faulty variant of ResetFields: setSpeed(0) is missing
ResetFields_KeepSpeed ==
    /\ currentIndex' = 0
    /\ elapsedTime' = Fin(0)
    /\ speed' = speed
    /\ IF LengthPositive(routeData)
       THEN /\ currentPosition' = <<routeData.items[1]>>
            /\ vehicleMarker' = IF vehicleMarker # <<>>
                                THEN <<LngLat(routeData.items[1])>>
                                ELSE vehicleMarker
            /\ activeRoute' = IF HasActiveRouteSource THEN <<>> ELSE activeRoute
       ELSE UNCHANGED <<currentPosition, vehicleMarker, activeRoute>>

\* Faulty variant of ResetFields: setCurrentPosition(routeData[0]) is missing
ResetFields_KeepPosition ==
    /\ currentIndex' = 0
    /\ elapsedTime' = Fin(0)
    /\ speed' = Fin(0)
    /\ currentPosition' = currentPosition
    /\ IF LengthPositive(routeData)
       THEN /\ vehicleMarker' = IF vehicleMarker # <<>>
                                THEN <<LngLat(routeData.items[1])>>
                                ELSE vehicleMarker
            /\ activeRoute' = IF HasActiveRouteSource THEN <<>> ELSE activeRoute
       ELSE UNCHANGED <<vehicleMarker, activeRoute>>

\* the state updates of handleReset other than setIsPlaying, lines 257-278
ResetFields ==
    /\ currentIndex' = 0
    /\ elapsedTime' = Fin(0)
    /\ speed' = Fin(0)
    /\ IF LengthPositive(routeData)
       THEN /\ currentPosition' = <<routeData.items[1]>>
            /\ vehicleMarker' = IF vehicleMarker # <<>>
                                THEN <<LngLat(routeData.items[1])>>
                                ELSE vehicleMarker
            /\ activeRoute' = IF HasActiveRouteSource THEN <<>> ELSE activeRoute
       ELSE UNCHANGED <<currentPosition, vehicleMarker, activeRoute>>

\* handlePlay, lines 242-248: the updates of handleReset and setIsPlaying(true)
\* are batched into one commit, so isPlaying ends true
handlePlay ==
    /\ mounted
    /\ IF AtOrPastLast(currentIndex, routeData)
       THEN ResetFields
       ELSE UNCHANGED <<currentIndex, elapsedTime, speed, currentPosition,
                        vehicleMarker, activeRoute>>
    /\ isPlaying' = TRUE
    /\ lastToast' = "Vehicle movement started"
    /\ RunMovementEffect(~isPlaying, TRUE, routeData)
    /\ last' = Before("play")
    /\ ticksSincePlay' = IF ~isPlaying /\ currentIndex = 0 /\ LengthPositive(routeData)
                         THEN 0 ELSE -1
    /\ UNCHANGED <<mounted, fetchState, response, routeData, mapboxToken,
                   isTokenValid, map>>

\* handlePause, lines 250-253
handlePause ==
    /\ mounted
    /\ isPlaying' = FALSE
    /\ lastToast' = "Vehicle movement paused"
    /\ RunMovementEffect(isPlaying, FALSE, routeData)
    /\ last' = Before("pause")
    /\ ticksSincePlay' = -1
    /\ UNCHANGED <<mounted, fetchState, response, routeData, currentIndex,
                   currentPosition, speed, elapsedTime, mapboxToken,
                   isTokenValid, map, activeRoute, vehicleMarker>>

\* handleReset, lines 255-281
handleReset ==
    /\ mounted
    /\ isPlaying' = FALSE
    /\ ResetFields
    /\ lastToast' = "Vehicle position reset"
    /\ RunMovementEffect(isPlaying, FALSE, routeData)
    /\ last' = Before("reset")
    /\ ticksSincePlay' = -1
    /\ UNCHANGED <<mounted, fetchState, response, routeData, mapboxToken,
                   isTokenValid, map>>

-----------------------------------------------------------------------------
(* The interval callback, lines 164-217 *)

Tick ==
    \E id \in activeIntervals :
        LET nextIndex == currentIndex + 1 IN
        /\ mounted
        /\ IF PastEnd(nextIndex, routeData)
           THEN /\ isPlaying' = FALSE
                /\ lastToast' = "Route completed!"
                /\ RunMovementEffect(isPlaying, FALSE, routeData)
                /\ UNCHANGED <<currentIndex, currentPosition, vehicleMarker,
                               activeRoute, speed, elapsedTime>>
           ELSE /\ currentIndex' = nextIndex
                /\ currentPosition' = <<routeData.items[nextIndex + 1]>>
                /\ vehicleMarker' = IF vehicleMarker # <<>>
                                    THEN <<LngLat(routeData.items[nextIndex + 1])>>
                                    ELSE vehicleMarker
                /\ activeRoute' = IF HasActiveRouteSource
                                  THEN ActiveCoordinates(routeData, nextIndex)
                                  ELSE activeRoute
                /\ speed' = SpeedAt(routeData, nextIndex)
                /\ elapsedTime' = ElapsedAt(routeData, nextIndex)
                /\ UNCHANGED <<isPlaying, lastToast, intervalRef, activeIntervals>>
        /\ last' = Before("tick")
        /\ ticksSincePlay' = IF ticksSincePlay >= 0 /\ ticksSincePlay <= MaxLen
                             THEN ticksSincePlay + 1 ELSE ticksSincePlay
        /\ UNCHANGED <<mounted, fetchState, response, routeData, mapboxToken,
                       isTokenValid, map>>

-----------------------------------------------------------------------------
(* Teardown: the cleanups of lines 156-158 and 224-228 *)

Unmount ==
    /\ mounted
    /\ mounted' = FALSE
    /\ activeIntervals' = MovementCleanup(intervalRef, activeIntervals)
    /\ map' = IF map = "null" THEN map ELSE "removed"
    /\ activeRoute' = <<>>
    /\ last' = Other
    /\ UNCHANGED <<fetchState, response, routeData, currentIndex, isPlaying,
                   currentPosition, speed, elapsedTime, intervalRef,
                   mapboxToken, isTokenValid, vehicleMarker, lastToast,
                   ticksSincePlay>>

Next ==
    \/ LoadResolve
    \/ LoadReject
    \/ setMapboxToken
    \/ MapOnLoad
    \/ MapOnError
    \/ handlePlay
    \/ handlePause
    \/ handleReset
    \/ Tick
    \/ Unmount

Spec == Init /\ [][Next]_vars

\* While an interval is live and the component mounted, the browser fires its
\* callback every 1000 ms (line 217): a tick that stays enabled is taken.
FairSpec == Spec /\ WF_vars(Tick)

-----------------------------------------------------------------------------
(* Properties *)

route == routeData.items
N == Len(route)
NonEmptyRoute == IsArray(routeData) /\ N > 0

\* every element has the fields of a RoutePoint
WellFormed(json) ==
    /\ json.kind = "array"
    /\ \A i \in 1..Len(json.items) : Len(json.items[i].timestamp) = 2

\* the read-out (cursor, status, speedKmh, elapsedSeconds) is what it was
\* before the last command
SameAsBefore ==
    /\ currentIndex = last.currentIndex
    /\ isPlaying = last.isPlaying
    /\ speed = last.speed
    /\ elapsedTime = last.elapsedTime

(* C1 *)

\* C1, as stated: for every non-empty route, a play from (Stopped, cursor 0)
\* followed by exactly route.length - 1 ticks and no other command leaves the
\* engine not playing with the cursor at route.length - 1.
C1_CompletedAfterLenMinusOneTicks ==
    (NonEmptyRoute /\ ticksSincePlay = N - 1)
        => (~isPlaying /\ currentIndex = N - 1)

\* C1, amended: for every non-empty route, a play from (Stopped, cursor 0)
\* followed by k ticks and no other command leaves the cursor at k and the
\* engine still playing for every k <= route.length - 1; it is the tick
\* number route.length that stops playback, with the cursor at
\* route.length - 1 and no interval left.
C1_CompletedAfterLenTicks ==
    (NonEmptyRoute /\ ticksSincePlay >= 0) =>
        /\ ticksSincePlay <= N
        /\ ticksSincePlay <= N - 1 =>
              (isPlaying /\ currentIndex = ticksSincePlay)
        /\ ticksSincePlay = N =>
              (~isPlaying /\ currentIndex = N - 1 /\ activeIntervals = {})

C1_Witness ==
    /\ NonEmptyRoute /\ N >= 2
    /\ ticksSincePlay = N
    /\ ~isPlaying /\ currentIndex = N - 1

(* C2 *)

\* C2: from every reachable state the reset command yields cursor 0, status
\* Stopped (no interval left), speed 0 and elapsed time 0 and, when the route
\* is non-empty, the position route[0] (read-out and marker) and an empty
\* active path.
C2_ResetYieldsStart ==
    last.op = "reset" =>
        /\ currentIndex = 0
        /\ ~isPlaying /\ activeIntervals = {}
        /\ speed = Fin(0)
        /\ elapsedTime = Fin(0)
        /\ NonEmptyRoute =>
              /\ currentPosition = <<route[1]>>
              /\ activeRoute = <<>>
              /\ vehicleMarker # <<>> => vehicleMarker = <<LngLat(route[1])>>

\* a reset issued while playing in the middle of the route, map ready
C2_Witness ==
    /\ last.op = "reset"
    /\ last.isPlaying /\ last.currentIndex > 0 /\ last.speed # Fin(0)
    /\ map = "loaded"
    /\ currentIndex = 0 /\ activeRoute = <<>>

(* C3 *)

\* C3: after pause or reset no interval is left, an interval is live only
\* while isPlaying, and so every tick starts from a playing state: no tick
\* changes the cursor, the read-outs or the published position and path while
\* the status is not Playing.
C3_NoTickUnlessPlaying ==
    /\ activeIntervals # {} => isPlaying
    /\ last.op \in {"pause", "reset"} => activeIntervals = {}
    /\ last.op = "tick" => last.isPlaying

\* a pause that stopped a running playback of a loaded route
C3_Witness ==
    /\ last.op = "pause" /\ last.isPlaying
    /\ NonEmptyRoute /\ intervalRef # 0
    /\ activeIntervals = {}

(* C4 *)

\* the state right after a play that found the cursor at the last index
C4_PlayPost ==
    (last.op = "play" /\ NonEmptyRoute /\ last.currentIndex = N - 1) =>
        /\ currentIndex = 0
        /\ elapsedTime = Fin(0)
        /\ speed = Fin(0)
        /\ currentPosition = <<route[1]>>
        /\ activeRoute = <<>>
        /\ isPlaying /\ activeIntervals # {}

\* the tick that follows such a play, for a route of at least two points
C4_FirstTick ==
    (/\ last.op = "play" /\ NonEmptyRoute /\ last.currentIndex = N - 1
     /\ N >= 2 /\ last'.op = "tick")
        => (currentIndex = 0 /\ currentIndex' = 1 /\ isPlaying')

\* C4: a play issued with the cursor at route.length - 1 (Completed, or still
\* Playing there) resets cursor, elapsed time and speed to 0, the position to
\* route[0] and the active path to empty, and ends Playing with an interval
\* running; the tick that follows moves the cursor from 0 to 1 when the route
\* has at least two points.
C4_PlayAtEndRestarts == [](C4_PlayPost) /\ [][C4_FirstTick]_vars

\* a play issued after the route completed, with the map ready, and the
\* restart it produced
C4_Witness ==
    /\ last.op = "play" /\ ~last.isPlaying
    /\ NonEmptyRoute /\ N >= 2 /\ last.currentIndex = N - 1
    /\ last.elapsedTime # Fin(0)
    /\ map = "loaded"
    /\ currentIndex = 0 /\ isPlaying

(* C5 *)

\* C5, as stated: pause in a Stopped state and play in a Playing state (at
\* any cursor, the last index included) leave cursor, status, speed and
\* elapsed time unchanged.
C5_Idempotent ==
    /\ (last.op = "pause" /\ ~last.isPlaying) => SameAsBefore
    /\ (last.op = "play" /\ last.isPlaying) => SameAsBefore

\* C5, amended: pause in a Stopped state leaves cursor, status, speed and
\* elapsed time unchanged; play in a Playing state leaves them unchanged when
\* the cursor is before the last index of the route, and at the last index it
\* resets cursor, speed and elapsed time to 0 and stays Playing.
C5_IdempotentBeforeLast ==
    /\ (last.op = "pause" /\ ~last.isPlaying) => SameAsBefore
    /\ (last.op = "play" /\ last.isPlaying
            /\ ~(IsArray(routeData) /\ last.currentIndex >= N - 1))
          => SameAsBefore
    /\ (last.op = "play" /\ last.isPlaying
            /\ IsArray(routeData) /\ last.currentIndex >= N - 1)
          => (currentIndex = 0 /\ speed = Fin(0) /\ elapsedTime = Fin(0)
              /\ isPlaying)

\* a play issued while playing in the middle of a route
C5_Witness ==
    /\ last.op = "play" /\ last.isPlaying
    /\ NonEmptyRoute /\ last.currentIndex >= 1 /\ last.currentIndex < N - 1
    /\ currentIndex = last.currentIndex /\ activeIntervals # {}

(* C6 *)

\* C6, as stated: for a route of one point the play command immediately
\* yields the Completed status (not playing), the cursor stays 0 and no speed
\* is computed.
C6_SinglePointPlayCompletes ==
    (last.op = "play" /\ NonEmptyRoute /\ N = 1) =>
        (~isPlaying /\ currentIndex = 0 /\ speed = Fin(0))

\* C6, amended: for a route of one point the play command yields Playing
\* with an interval running; the first tick then ends playback with the
\* 'Route completed!' toast.  Throughout, the cursor stays 0 and no speed is
\* computed (speed and elapsed time stay 0).
C6_SinglePointCompletesOnFirstTick ==
    (NonEmptyRoute /\ N = 1) =>
        /\ currentIndex = 0 /\ speed = Fin(0) /\ elapsedTime = Fin(0)
        /\ last.op = "play" => (isPlaying /\ activeIntervals # {})
        /\ last.op = "tick" =>
              /\ last.isPlaying /\ ~isPlaying
              /\ activeIntervals = {}
              /\ lastToast = "Route completed!"

C6_Witness ==
    /\ NonEmptyRoute /\ N = 1
    /\ last.op = "tick" /\ ticksSincePlay = 1
    /\ ~isPlaying

(* C7 *)

\* C7: whenever the route is non-empty, 0 <= cursor < route.length.
C7_CursorInBounds ==
    NonEmptyRoute => (0 <= currentIndex /\ currentIndex < N)

\* the completing tick has run at the last index of a route of several points
C7_Witness ==
    /\ NonEmptyRoute /\ N >= 2
    /\ currentIndex = N - 1
    /\ last.op = "tick" /\ last.currentIndex = N - 1 /\ ~isPlaying

(* C8 *)

\* the integer n with n - 1/2 <= num / den < n + 1/2
RoundHalfUp(num, den) ==
    CHOOSE n \in -10..10 :
        2 * den * n <= 2 * num + den /\ 2 * num + den < 2 * den * (n + 1)

\* milliseconds of a time stamp <<seconds, milliseconds>>
Millis(ts) == 1000 * ts[1] + ts[2]

\* round((timestamp(route[i]) - timestamp(route[0])) / 1000), halves rounded
\* up as Math.round does; not a number when a time stamp is missing
ElapsedOf(i) ==
    IF Len(route[i + 1].timestamp) = 2 /\ Len(route[1].timestamp) = 2
    THEN Fin(RoundHalfUp(Millis(route[i + 1].timestamp)
                           - Millis(route[1].timestamp), 1000))
    ELSE NaN

\* C8: whenever the route is non-empty, elapsedSeconds =
\* round((timestamp(route[cursor]) - timestamp(route[0])) / 1000).
C8_ElapsedInvariant ==
    NonEmptyRoute => elapsedTime = ElapsedOf(currentIndex)

\* C8 on the routes whose elements all carry a time stamp (the routes a
\* validating load would let through): there the invariant holds.
C8_ElapsedMatchesCursor ==
    (NonEmptyRoute /\ WellFormed(routeData)) =>
        elapsedTime = ElapsedOf(currentIndex)

\* a tick arrived 2.5 s after the start of the route: 3 seconds elapsed
C8_Witness ==
    /\ NonEmptyRoute /\ WellFormed(routeData)
    /\ last.op = "tick" /\ currentIndex >= 1
    /\ Millis(route[currentIndex + 1].timestamp) - Millis(route[1].timestamp) = 2500
    /\ elapsedTime = Fin(3)

(* C9 *)

\* C9: while the route is empty the play command is a no-op: the status does
\* not become Playing, no interval is started, and cursor, speed and elapsed
\* time are unchanged.
C9_PlayOnEmptyRouteIsNoOp ==
    (last.op = "play" /\ ~NonEmptyRoute) =>
        /\ ~isPlaying
        /\ activeIntervals = {}
        /\ currentIndex = last.currentIndex
        /\ speed = last.speed
        /\ elapsedTime = last.elapsedTime

(* C10 *)

\* the payload is not an array, or an element lacks a required field
Malformed(json) == ~WellFormed(json)

\* C10: whenever the retrieval fails in transport or delivers a malformed
\* payload, the load ends in the error outcome: the error toast, the route
\* still empty and no interval running; a malformed payload is never the
\* route.
C10_LoadRejectsBadInput ==
    [][(fetchState = "pending" /\ fetchState' # "pending"
            /\ (fetchState' = "rejected" \/ Malformed(response')))
        => /\ lastToast' = "Failed to load route data"
           /\ routeData' = JsonArray(<<>>)
           /\ activeIntervals' = {}]_vars

(* C11 *)

\* a pause issued while playing
C11_PauseStep ==
    (last'.op = "pause" /\ isPlaying) =>
        /\ ~isPlaying' /\ activeIntervals' = {}
        /\ UNCHANGED <<currentIndex, speed, elapsedTime, currentPosition,
                       activeRoute, vehicleMarker>>

\* a play issued while not playing, with the cursor before the last index
C11_ResumeStep ==
    (last'.op = "play" /\ ~isPlaying /\ NonEmptyRoute /\ currentIndex < N - 1) =>
        /\ isPlaying' /\ activeIntervals' # {}
        /\ UNCHANGED <<currentIndex, speed, elapsedTime, currentPosition,
                       activeRoute, vehicleMarker>>

\* the tick that follows such a play
C11_TickAfterResume ==
    (/\ last.op = "play" /\ ~last.isPlaying
     /\ NonEmptyRoute /\ last.currentIndex < N - 1
     /\ last'.op = "tick")
        => currentIndex' = last.currentIndex + 1

\* C11: a pause from Playing sets isPlaying false and leaves no interval,
\* while cursor, speed, elapsed time and the published position and active
\* path stay as they are; a later play with the cursor before the last index
\* keeps that cursor and the read-outs, and the next tick moves to cursor + 1.
C11_PauseKeepsAndPlayResumes ==
    [][C11_PauseStep /\ C11_ResumeStep /\ C11_TickAfterResume]_vars

\* the tick after a resume in the middle of a route: only a pause leaves the
\* engine not playing with the cursor strictly inside the route
C11_Witness ==
    /\ last.op = "play" /\ ~last.isPlaying
    /\ NonEmptyRoute /\ last.currentIndex >= 1 /\ last.currentIndex < N - 1
    /\ currentIndex = last.currentIndex
    /\ isPlaying /\ activeIntervals # {}
    /\ map = "loaded" /\ activeRoute # <<>>

(* C12 *)

\* C12: in every reachable state with the cursor at 0 the speed is 0.
C12_SpeedZeroAtStart == currentIndex = 0 => speed = Fin(0)

\* the implicit reset of a play issued at the end of a route, where the
\* speed was not 0
C12_Witness ==
    /\ last.op = "play" /\ last.currentIndex >= 1 /\ last.speed # Fin(0)
    /\ currentIndex = 0 /\ speed = Fin(0)

(* C13 *)

\* the time stamps of the route are present and never decrease
NonDecreasingTimestamps ==
    /\ WellFormed(routeData)
    /\ \A i \in 1..(N - 1) :
           Millis(route[i].timestamp) <= Millis(route[i + 1].timestamp)

\* C13: on a route with non-decreasing time stamps the elapsed time after a
\* tick is a number not below the elapsed time before that tick; as no
\* command other than a reset writes the elapsed time, it never decreases
\* from one tick to the next one.
C13_ElapsedNeverDecreases ==
    (last.op = "tick" /\ NonEmptyRoute /\ NonDecreasingTimestamps) =>
        /\ last.elapsedTime.tag = "fin" /\ elapsedTime.tag = "fin"
        /\ elapsedTime.v >= last.elapsedTime.v

\* a second advancing tick in a row, on a route of three distinct time stamps
C13_Witness ==
    /\ last.op = "tick" /\ NonEmptyRoute /\ NonDecreasingTimestamps
    /\ last.currentIndex = 1 /\ currentIndex = 2
    /\ last.elapsedTime = Fin(1) /\ elapsedTime = Fin(3)

(* C14 *)

\* a tick while playing with the cursor at the last index
C14_CompletingStep ==
    (last'.op = "tick" /\ NonEmptyRoute /\ currentIndex = N - 1) =>
        /\ UNCHANGED <<currentIndex, speed, elapsedTime, currentPosition,
                       activeRoute, vehicleMarker>>
        /\ ~isPlaying' /\ activeIntervals' = {}
        /\ lastToast' = "Route completed!"

\* the completion notification is emitted by no other step
C14_NotifiedOnlyThen ==
    (lastToast' = "Route completed!" /\ lastToast' # lastToast) =>
        (last'.op = "tick" /\ NonEmptyRoute /\ currentIndex = N - 1)

\* with a route loaded, only a play starts an interval
C14_OnlyPlayRestarts ==
    (NonEmptyRoute /\ activeIntervals = {} /\ activeIntervals' # {}) =>
        last'.op = "play"

\* C14: the tick at the last index changes neither cursor, speed, elapsed
\* time, position nor active path; it sets isPlaying false, leaves no
\* interval and emits 'Route completed!', which no other step emits; no
\* interval, hence no tick, exists again before a play.
C14_CompletingTick ==
    [][C14_CompletingStep /\ C14_NotifiedOnlyThen /\ C14_OnlyPlayRestarts]_vars

\* just after the completing tick of a route of at least two points, with the
\* map loaded
C14_Witness ==
    /\ last.op = "tick" /\ last.isPlaying
    /\ NonEmptyRoute /\ N >= 2 /\ last.currentIndex = N - 1
    /\ currentIndex = N - 1 /\ ~isPlaying /\ activeIntervals = {}
    /\ lastToast = "Route completed!"
    /\ map = "loaded" /\ Len(activeRoute) = N

(* C16 *)

\* the time stamps of the route are present and strictly increasing
StrictlyIncreasingTimestamps ==
    /\ WellFormed(routeData)
    /\ \A i \in 1..(N - 1) :
           Millis(route[i].timestamp) < Millis(route[i + 1].timestamp)

\* num / den rounded to the nearest integer, halves up, for num >= 0, den > 0
RoundNearest(num, den) ==
    CHOOSE n \in {num \div den, num \div den + 1} :
        2 * den * n <= 2 * num + den /\ 2 * num + den < 2 * den * (n + 1)

\* round2(distance(route[i-1], route[i]) / deltaSeconds * 3.6) in hundredths
\* of a km/h, the distance being in centimetres and the time in milliseconds
SegmentSpeed(i) ==
    Fin(RoundNearest(
            calculateDistance(route[i].latitude, route[i].longitude,
                              route[i + 1].latitude, route[i + 1].longitude)
              * 3600,
            Millis(route[i + 1].timestamp) - Millis(route[i].timestamp)))

\* C16: on a route with strictly increasing time stamps, after every tick
\* that advanced the cursor the speed is the one of the segment from
\* route[cursor - 1] to route[cursor].
C16_SpeedOfLastSegment ==
    (/\ last.op = "tick" /\ NonEmptyRoute /\ StrictlyIncreasingTimestamps
     /\ currentIndex = last.currentIndex + 1)
        => speed = SegmentSpeed(currentIndex)

\* after the second advancing tick, where the segment differs from the first
C16_Witness ==
    /\ last.op = "tick" /\ NonEmptyRoute /\ StrictlyIncreasingTimestamps
    /\ last.currentIndex = 1 /\ currentIndex = 2
    /\ speed.tag = "fin" /\ speed.v > 0 /\ speed # last.speed

(* C15 *)

\* the coordinates of route[0..i]
PrefixPath(i) ==
    [k \in 1..(i + 1) |-> <<route[k].longitude, route[k].latitude>>]

C15_PrefixAfterAdvance ==
    (/\ last.op = "tick" /\ NonEmptyRoute /\ map = "loaded"
     /\ currentIndex = last.currentIndex + 1)
        => activeRoute = PrefixPath(currentIndex)

(* C17 *)

\* C17: at most one interval is live, and none is when isPlaying is false,
\* when the route is empty, or after the component was unmounted.
C17_SingleInterval ==
    /\ Cardinality(activeIntervals) <= 1
    /\ (~isPlaying \/ ~NonEmptyRoute \/ ~mounted) => activeIntervals = {}

\* unmounted in the middle of a playback, whose interval had been started
C17_Witness ==
    /\ ~mounted /\ isPlaying /\ NonEmptyRoute
    /\ currentIndex >= 1 /\ currentIndex < N - 1
    /\ intervalRef # 0 /\ activeIntervals = {}

(* C18 *)

\* C18: whenever a non-empty route is loaded, the published position is the
\* route point at the cursor.
C18_PositionIsRouteAtCursor ==
    NonEmptyRoute =>
        /\ currentIndex + 1 \in 1..N
        /\ currentPosition = <<route[currentIndex + 1]>>

\* a reset issued after the cursor had advanced: the position is the first
\* point again
C18_Witness ==
    /\ last.op = "reset" /\ last.currentIndex >= 1
    /\ NonEmptyRoute /\ N >= 2 /\ route[1] # route[last.currentIndex + 1]
    /\ currentIndex = 0 /\ currentPosition = <<route[1]>>

(* C19 *)

\* no pause and no reset is issued in the step
NoPauseOrReset == last'.op \in {"pause", "reset"} => last' = last

\* no command at all is issued in the step
NoCommand == last'.op \in {"play", "pause", "reset"} => last' = last

\* not playing, the cursor at the last index, no interval left
Completed ==
    ~isPlaying /\ currentIndex = N - 1 /\ activeIntervals = {}

\* playback has come to rest: with a route loaded and the component mounted,
\* the engine is not playing and no interval is left
AtRest ==
    (mounted /\ NonEmptyRoute) => (~isPlaying /\ activeIntervals = {})

\* playing ends without a pause or a reset only in Completed
C19_StopsOnlyCompleted ==
    (isPlaying /\ ~isPlaying' /\ ~(last'.op \in {"pause", "reset"})) =>
        (NonEmptyRoute /\ Completed')

====
